---- MODULE Spec2Model ----
(***************************************************************************)
(* Model of server/api/mcp-chat.ts: the session store (sessionsCache and   *)
(* the sessions file), the action-dispatched request handler, and the      *)
(* streamed chat completion with its onFinish callback.                    *)
(*                                                                         *)
(* Sessions are heap objects: sessionsCache maps an id to an object, and a *)
(* chat request in flight keeps a reference to the object it was started   *)
(* on, as the closure of onFinish does.  Every handler runs to completion  *)
(* without interleaving (one event-loop turn after readBody, file writes   *)
(* are synchronous), so each handler is one action.                        *)
(***************************************************************************)
EXTENDS Naturals, Sequences, FiniteSets, TLC

VARIABLES
    sessionsCache,  \* id -> reference into heap   (the Map, line 21)
    heap,           \* reference -> MCPSession object, reachable objects only
    file,           \* .data/mcp-sessions.json
    now,            \* the clock read by new Date()
    apiKey,         \* useRuntimeConfig().openaiApiKey is set
    reqs,           \* provider calls in flight (streamText started, not ended)
    last,           \* the step just taken: operation, response, save outcome
    audit,          \* per object: the chat rounds completed on it (history)
    deleted,        \* ids deleted and not created again -> a write without
                    \* the id succeeded since
    used,           \* what the run has spent of its budget
    client          \* one browser: the session page, its sidebar, localStorage

server == <<sessionsCache, heap, file, now, apiKey, reqs, last, audit, deleted, used>>

vars == <<sessionsCache, heap, file, now, apiKey, reqs, last, audit, deleted, used,
          client>>

(***************************************************************************)
(* Bounds                                                                  *)
(***************************************************************************)
\* A run spends at most MaxBudget units: one per session created, per
\* provider call started, per failed file write and per clock tick.
MaxBudget == 3

(***************************************************************************)
(* Input domains                                                           *)
(***************************************************************************)
Nil == "undefined"
IdSeq == <<"mcp-a", "mcp-b">>
Ids == {IdSeq[i] : i \in 1..Len(IdSeq)}
EmptyMeta == "{}"
Metas == {"{clientInfo}"}
UserTexts == {"hello", "again"}
ReplyTexts == {"reply1", "reply2"}

SystemPrompt == [role |-> "system", content |-> "You are a helpful assistant."]
UserMsg(c) == [role |-> "user", content |-> c]
AssistantMsg(c) == [role |-> "assistant", content |-> c]

\* The message lists a client may send with a chat request.
MessageLists ==
    {<<>>, <<SystemPrompt>>}
    \cup {<<SystemPrompt, UserMsg(c)>> : c \in UserTexts}

\* Objects reachable at one time: one per id in the map, one per call in
\* flight on an object no longer in the map, one being allocated.
MaxObjs == Cardinality(Ids) + MaxBudget + 1

(***************************************************************************)
(* Dates and JSON                                                          *)
(***************************************************************************)
toISOString(d) == <<"iso", d>>
newDate(s) == s[2]

stringifySession(s) ==
    [conversationId |-> s.conversationId,
     messages       |-> s.messages,
     metadata       |-> s.metadata,
     createdAt      |-> toISOString(s.createdAt),
     updatedAt      |-> toISOString(s.updatedAt)]

reviveSessionOneDate(j) ==
    [conversationId |-> j.conversationId,
     messages       |-> j.messages,
     metadata       |-> j.metadata,
     createdAt      |-> newDate(j.updatedAt),
     updatedAt      |-> newDate(j.updatedAt)]

reviveSession(j) ==
    [conversationId |-> j.conversationId,
     messages       |-> j.messages,
     metadata       |-> j.metadata,
     createdAt      |-> newDate(j.createdAt),
     updatedAt      |-> newDate(j.updatedAt)]

\* The sessions file: absent, not parseable as JSON, or a JSON object of
\* entries; an entry that is not an object (null) makes its conversion throw.
NoFile == [state |-> "absent", data |-> <<>>]
UnparseableFile == [state |-> "unparseable", data |-> <<>>]
JsonNull == [json |-> "null"]

\* saveSessions: the whole map is written, or the write throws and the
\* error is logged, leaving the file as it was.
saveSessionsGivesUpAfterError(cache, hp, old, ok) ==
    IF ok /\ used.fails = 0
    THEN [state |-> "valid",
          data  |-> [id \in DOMAIN cache |-> stringifySession(hp[cache[id]])]]
    ELSE old

saveSessionsMerging(cache, hp, old, ok) ==
    IF ok
    THEN [state |-> "valid",
          data  |-> [id \in DOMAIN cache \cup DOMAIN old.data |->
                       IF id \in DOMAIN cache THEN stringifySession(hp[cache[id]])
                       ELSE old.data[id]]]
    ELSE old

saveSessionsClearsOnError(cache, hp, old, ok) ==
    IF ok
    THEN [state |-> "valid",
          data  |-> [id \in DOMAIN cache |-> stringifySession(hp[cache[id]])]]
    ELSE NoFile

saveSessionsKeepsOldEntries(cache, hp, old, ok) ==
    IF ok
    THEN [state |-> "valid",
          data  |-> [id \in DOMAIN cache |->
                       IF id \in DOMAIN old.data THEN old.data[id]
                       ELSE stringifySession(hp[cache[id]])]]
    ELSE old

saveSessions(cache, hp, old, ok) ==
    IF ok
    THEN [state |-> "valid",
          data  |-> [id \in DOMAIN cache |-> stringifySession(hp[cache[id]])]]
    ELSE old

Spent == used.creates + used.calls + used.fails + now

\* fs.writeFileSync succeeds or throws; cost is what the step spends itself.
WriteOutcomes(cost) == IF Spent + cost < MaxBudget THEN BOOLEAN ELSE {TRUE}
Failed(u, ok) == [u EXCEPT !.fails = IF ok THEN @ ELSE @ + 1]

SaveOutcome(ok) == IF ok THEN "ok" ELSE "failed"

\* The ids of the file, in the order loadSessions meets them.
RECURSIVE FileIds(_, _)
FileIds(f, i) ==
    IF i > Len(IdSeq) THEN <<>>
    ELSE (IF IdSeq[i] \in DOMAIN f.data THEN <<IdSeq[i]>> ELSE <<>>)
         \o FileIds(f, i + 1)

IndexOf(seq, x) == CHOOSE i \in 1..Len(seq) : seq[i] = x

\* The entries loadSessions has put into the map when its loop ends: all of
\* them, or those before the first entry whose conversion throws.
RECURSIVE LoadedPrefix(_, _)
LoadedPrefix(f, ids) ==
    IF ids = <<>> \/ f.data[Head(ids)] = JsonNull THEN <<>>
    ELSE <<Head(ids)>> \o LoadedPrefix(f, Tail(ids))

LoadedIds(f) == LoadedPrefix(f, FileIds(f, 1))

\* loadSessions: the objects read from the file, and the map onto them.
loadedHeap(f) ==
    IF f.state = "valid"
    THEN [i \in 1..Len(LoadedIds(f)) |-> reviveSession(f.data[LoadedIds(f)[i]])]
    ELSE <<>>

\* What is reachable from the map and from the closures of calls in flight.
Reachable(cache, rq) ==
    ({cache[id] : id \in DOMAIN cache}
     \cup {rq[k].session : k \in DOMAIN rq}) \ {0}

Collect(hp, cache, rq) == [r \in DOMAIN hp \cap Reachable(cache, rq) |-> hp[r]]

Alloc(hp) == CHOOSE r \in 1..MaxObjs : r \notin DOMAIN hp
                                        /\ \A q \in 1..(r - 1) : q \in DOMAIN hp

RemoveAt(seq, k) == SubSeq(seq, 1, k - 1) \o SubSeq(seq, k + 1, Len(seq))

loadedCache(f) ==
    IF f.state = "valid"
    THEN [id \in {LoadedIds(f)[i] : i \in 1..Len(LoadedIds(f))}
            |-> IndexOf(LoadedIds(f), id)]
    ELSE <<>>

(***************************************************************************)
(* Responses                                                               *)
(***************************************************************************)
createError(status, message) ==
    [kind |-> "error", status |-> status, message |-> message, body |-> <<>>]

Json(body) == [kind |-> "json", status |-> 200, message |-> "", body |-> body]

\* result.toDataStreamResponse(): the reply is the provider's stream.
StreamResponse == [kind |-> "stream", status |-> 200, message |-> "", body |-> <<>>]

NoResponse == [kind |-> "none", status |-> 0, message |-> "", body |-> <<>>]

\* The catch of the handler's try block: whatever was thrown inside it is
\* logged and replaced by a new 500 error.
HandlerCatch(outcome) ==
    IF outcome.kind = "error"
    THEN createError(500, "Failed to process request")
    ELSE outcome

NoBody ==
    [action |-> Nil, conversationId |-> Nil, dataConversationId |-> Nil,
     hasMessages |-> FALSE, messages |-> <<>>, metadata |-> Nil]

ActionOf(body) == IF body.action = Nil THEN "chat" ELSE body.action

\* The record of a step: the operation (a request's action, or an event),
\* the request body, the response sent, whether saveSessions ran and how
\* the write ended, and the message list handed to the provider, if any.
Step(op, body, resp, save, submitted) ==
    [op |-> op, body |-> body, resp |-> resp, save |-> save,
     submitted |-> submitted]

NewAudit == [serial |-> TRUE, done |-> <<>>]

\* Bookkeeping of deleted ids after a save: a successful write covers the
\* deleted ids that are not in the map it writes.
Written(del, cache, ok) ==
    [id \in DOMAIN del |-> del[id] \/ (ok /\ id \notin DOMAIN cache)]

(***************************************************************************)
(* The client: pages/mcp/[id].vue with components/MCPSidebar.vue in one    *)
(* browser.  Each function is cut at its awaits: the part up to a request  *)
(* is one step, the part after the response another.  The responses are    *)
(* inputs.                                                                 *)
(***************************************************************************)
\* HTTP requests one page has in flight at a time.
MaxPending == 2

Routes == Ids \cup {"new"}

\* A request in flight: the function waiting for it and the id it carries.
Call(fn, id) == [fn |-> fn, id |-> id]

Event(op, id) == [op |-> op, id |-> id]

NoDialog == [from |-> Nil, id |-> Nil]

post(c, fn, id) == [c EXCEPT !.pending = @ \cup {Call(fn, id)}]

settle(c, call) == [c EXCEPT !.pending = @ \ {call}]

\* watch(sessionIdFromRoute), up to its first await: a session id starts the
\* load with getSessionInfo, "new" clears the active session.
watchSessionIdFromRoute(c, newId) ==
    IF newId = "new"
    THEN [c EXCEPT !.activeSession = Nil]
    ELSE post([c EXCEPT !.isPending = TRUE], "watch.getSessionInfo", newId)

\* router.push / router.replace: the watcher runs when the route id changes.
routerPush(c, id) ==
    IF id = c.route THEN c
    ELSE watchSessionIdFromRoute([c EXCEPT !.route = id], id)

\* onMounted of the page: on the new-session route, redirect to the session
\* remembered in localStorage.
onMounted(c) ==
    IF c.route = "new" /\ c.localStorage # Nil
    THEN [routerPush(c, c.localStorage) EXCEPT
              !.event = Event("redirect", c.localStorage)]
    ELSE c

\* The page is opened at /mcp/<id>: fresh component state, the watcher runs
\* at once (immediate), then onMounted of the page and of the sidebar, which
\* fetches the session list.
OpenedAt(id, storage, gone) ==
    onMounted(
      post(watchSessionIdFromRoute(
               [route         |-> id,
                activeSession |-> Nil,
                isLoading     |-> FALSE,
                isPending     |-> FALSE,
                localStorage  |-> storage,
                sessions      |-> {},
                dialog        |-> NoDialog,
                pending       |-> {},
                event         |-> Event("open", id),
                removed       |-> gone],
               id),
           "fetchSessions", Nil))

\* A browser with nothing remembered opens the new-session page.
OpenedPage == OpenedAt("new", Nil, {})

(***************************************************************************)
(* Initial state: the module is loaded and loadSessions() has run.         *)
(***************************************************************************)
StartOn(f) ==
    /\ sessionsCache = loadedCache(f)
    /\ heap = loadedHeap(f)
    /\ file = f
    /\ now = 0
    /\ apiKey \in BOOLEAN
    /\ reqs = <<>>
    /\ last = Step("start", NoBody, NoResponse, "none", <<>>)
    /\ audit = [r \in DOMAIN loadedHeap(f) |-> NewAudit]
    /\ deleted = <<>>
    /\ used = [creates |-> 0, calls |-> 0, fails |-> 0]
    /\ client = OpenedPage

\* A fresh process with no sessions file.
Init == StartOn(NoFile)

(***************************************************************************)
(* Session lifecycle                                                       *)
(***************************************************************************)
MapSet(m, k, v) == [x \in DOMAIN m \cup {k} |-> IF x = k THEN v ELSE m[x]]
MapKeep(m, k) == m

MapDelete(m, k) == [x \in DOMAIN m \ {k} |-> m[x]]

\* generateId: two random base-36 strings; the store is not consulted.
generateId == Ids

NewSessionDropsMetadata(conversationId, metadata, t) ==
    [conversationId |-> conversationId,
     messages       |-> <<>>,
     metadata       |-> EmptyMeta,
     createdAt      |-> t,
     updatedAt      |-> t]

NewSession(conversationId, metadata, t) ==
    [conversationId |-> conversationId,
     messages       |-> <<>>,
     metadata       |-> metadata,
     createdAt      |-> t,
     updatedAt      |-> t]

createSession(body, metadata) ==
    /\ Spent < MaxBudget
    /\ \E conversationId \in generateId, ok \in WriteOutcomes(1) :
         LET session == NewSession(conversationId, metadata, now)
             ref == Alloc(heap)
             cache == MapSet(sessionsCache, conversationId, ref)
             hp == Collect(MapSet(heap, ref, session), cache, reqs)
         IN /\ heap' = hp
            /\ sessionsCache' = cache
            /\ used' = Failed([used EXCEPT !.creates = @ + 1], ok)
            /\ file' = saveSessions(cache, hp, file, ok)
            /\ audit' = [r \in DOMAIN hp |-> IF r = ref THEN NewAudit ELSE audit[r]]
            /\ deleted' = Written(MapDelete(deleted, conversationId), cache, ok)
            /\ last' = Step(ActionOf(body), body,
                            Json([conversationId |-> conversationId,
                                  metadata       |-> metadata,
                                  createdAt      |-> toISOString(now),
                                  messageCount   |-> 0]),
                            SaveOutcome(ok), <<>>)
    /\ UNCHANGED <<now, apiKey, reqs>>

getSessionInfoWithMessages(conversationId) ==
    IF conversationId \notin DOMAIN sessionsCache
    THEN createError(404, <<"Session not found: ", conversationId>>)
    ELSE LET session == heap[sessionsCache[conversationId]]
         IN Json([conversationId |-> session.conversationId,
                  metadata       |-> session.metadata,
                  createdAt      |-> toISOString(session.createdAt),
                  updatedAt      |-> toISOString(session.updatedAt),
                  messages       |-> session.messages,
                  messageCount   |-> Len(session.messages)])

getSessionInfo(conversationId) ==
    IF conversationId \notin DOMAIN sessionsCache
    THEN createError(404, <<"Session not found: ", conversationId>>)
    ELSE LET session == heap[sessionsCache[conversationId]]
         IN Json([conversationId |-> session.conversationId,
                  metadata       |-> session.metadata,
                  createdAt      |-> toISOString(session.createdAt),
                  updatedAt      |-> toISOString(session.updatedAt),
                  messageCount   |-> Len(session.messages)])

\* A handler that only answers.
Reply(body, resp) ==
    /\ last' = Step(ActionOf(body), body, resp, "none", <<>>)
    /\ UNCHANGED <<sessionsCache, heap, file, now, apiKey, reqs, audit, deleted, used>>

deleteSession(body, conversationId) ==
    LET exists == conversationId \in DOMAIN sessionsCache
        cache == MapDelete(sessionsCache, conversationId)
        hp == Collect(heap, cache, reqs)
        resp == Json([success |-> exists,
                      message |-> IF exists THEN "Session deleted"
                                            ELSE "Session not found"])
    IN /\ sessionsCache' = cache
       /\ heap' = hp
       /\ audit' = [r \in DOMAIN hp |-> audit[r]]
       /\ IF exists
          THEN \E ok \in WriteOutcomes(0) :
                 /\ file' = saveSessions(cache, hp, file, ok)
                 /\ deleted' = Written(MapSet(deleted, conversationId, FALSE), cache, ok)
                 /\ used' = Failed(used, ok)
                 /\ last' = Step(ActionOf(body), body, resp, SaveOutcome(ok), <<>>)
          ELSE /\ file' = file
               /\ deleted' = deleted
               /\ used' = used
               /\ last' = Step(ActionOf(body), body, resp, "none", <<>>)
       /\ UNCHANGED <<now, apiKey, reqs>>

(***************************************************************************)
(* Chat completion bridge                                                  *)
(***************************************************************************)
\* A provider call in flight: session is the object captured by onFinish
\* (0 for a direct chat).  For a session chat, the id it came with, the
\* content of its user message, the history it found, and whether the save
\* of its user turn was written.  connected: the caller is still reading
\* the response stream.
NewReq(session, conversationId, user, before, saved) ==
    [session |-> session, conversationId |-> conversationId, user |-> user,
     before |-> before, saved |-> saved, connected |-> TRUE]

InFlightOn(ref) == {k \in DOMAIN reqs : reqs[k].session = ref}

handleDirectChatSaves(body) ==
    /\ Spent < MaxBudget
    /\ used' = [used EXCEPT !.calls = @ + 1]
    /\ reqs' = Append(reqs, NewReq(0, Nil, Nil, <<>>, FALSE))
    /\ file' = saveSessions(sessionsCache, heap, file, TRUE)
    /\ last' = Step(ActionOf(body), body, StreamResponse, "ok",
                    IF body.hasMessages THEN body.messages ELSE <<>>)
    /\ UNCHANGED <<sessionsCache, heap, now, apiKey, audit, deleted>>

handleDirectChat(body) ==
    /\ Spent < MaxBudget
    /\ used' = [used EXCEPT !.calls = @ + 1]
    /\ reqs' = Append(reqs, NewReq(0, Nil, Nil, <<>>, FALSE))
    /\ last' = Step(ActionOf(body), body, StreamResponse, "none",
                    IF body.hasMessages THEN body.messages ELSE <<>>)
    /\ UNCHANGED <<sessionsCache, heap, file, now, apiKey, audit, deleted>>

\* formattedMessages: role, content and the (never set) name of each message.
formattedMessagesLatestOnly(session) ==
    [i \in 1..1 |->
        [role    |-> session.messages[Len(session.messages)].role,
         content |-> session.messages[Len(session.messages)].content,
         name    |-> Nil]]

formattedMessages(session) ==
    [i \in 1..Len(session.messages) |->
        [role    |-> session.messages[i].role,
         content |-> session.messages[i].content,
         name    |-> Nil]]

pushUserMessageOverUnanswered(session, content, t) ==
    LET n == Len(session.messages) IN
    IF n > 0 /\ session.messages[n].role = "user"
    THEN [session EXCEPT !.messages[n] = UserMsg(content), !.updatedAt = t]
    ELSE [session EXCEPT !.messages = Append(@, UserMsg(content)), !.updatedAt = t]

\* Lines 165-171: the user message is pushed and updatedAt refreshed.
pushUserMessage(session, content, t) ==
    [session EXCEPT !.messages = Append(@, UserMsg(content)), !.updatedAt = t]

pushAssistantMessageTwice(session, text) ==
    [session EXCEPT !.messages = Append(Append(@, AssistantMsg(text)),
                                        AssistantMsg(text))]

pushAssistantMessageFirst(session, text) ==
    [session EXCEPT !.messages = <<AssistantMsg(text)>> \o @]

\* Lines 248-251: the assistant message is pushed.
pushAssistantMessage(session, text) ==
    [session EXCEPT !.messages = Append(@, AssistantMsg(text))]

acceptSessionChatStoresList(body, conversationId, latestUserMessage) ==
    LET ref == sessionsCache[conversationId] IN
    /\ Spent < MaxBudget
    /\ \E ok \in WriteOutcomes(1) :
         LET session == [heap[ref] EXCEPT !.messages = @ \o body.messages,
                                          !.updatedAt = now]
             hp == [heap EXCEPT ![ref] = session]
         IN /\ heap' = hp
            /\ file' = saveSessions(sessionsCache, hp, file, ok)
            /\ used' = Failed([used EXCEPT !.calls = @ + 1], ok)
            /\ reqs' = Append(reqs, NewReq(ref, conversationId,
                                            latestUserMessage.content,
                                            heap[ref].messages, ok))
            /\ deleted' = Written(deleted, sessionsCache, ok)
            /\ audit' = [audit EXCEPT ![ref].serial = @ /\ InFlightOn(ref) = {}]
            /\ last' = Step(ActionOf(body), body, StreamResponse, SaveOutcome(ok),
                            formattedMessages(session))
    /\ UNCHANGED <<sessionsCache, now, apiKey>>

acceptSessionChatOneAtATime(body, conversationId, latestUserMessage) ==
    LET ref == sessionsCache[conversationId] IN
    IF InFlightOn(ref) # {}
    THEN Reply(body, createError(409, "Session is busy"))
    ELSE
    /\ Spent < MaxBudget
    /\ \E ok \in WriteOutcomes(1) :
         LET session == pushUserMessage(heap[ref], latestUserMessage.content, now)
             hp == [heap EXCEPT ![ref] = session]
         IN /\ heap' = hp
            /\ file' = saveSessions(sessionsCache, hp, file, ok)
            /\ used' = Failed([used EXCEPT !.calls = @ + 1], ok)
            /\ reqs' = Append(reqs, NewReq(ref, conversationId,
                                            latestUserMessage.content,
                                            heap[ref].messages, ok))
            /\ deleted' = Written(deleted, sessionsCache, ok)
            /\ audit' = [audit EXCEPT ![ref].serial = @ /\ InFlightOn(ref) = {}]
            /\ last' = Step(ActionOf(body), body, StreamResponse, SaveOutcome(ok),
                            formattedMessages(session))
    /\ UNCHANGED <<sessionsCache, now, apiKey>>

\* Lines 164-177: push the user message, refresh updatedAt, save, then
\* handleSessionChat starts the provider call on the same object.
acceptSessionChat(body, conversationId, latestUserMessage) ==
    LET ref == sessionsCache[conversationId] IN
    /\ Spent < MaxBudget
    /\ \E ok \in WriteOutcomes(1) :
         LET session == pushUserMessage(heap[ref], latestUserMessage.content, now)
             hp == [heap EXCEPT ![ref] = session]
         IN /\ heap' = hp
            /\ file' = saveSessions(sessionsCache, hp, file, ok)
            /\ used' = Failed([used EXCEPT !.calls = @ + 1], ok)
            /\ reqs' = Append(reqs, NewReq(ref, conversationId,
                                            latestUserMessage.content,
                                            heap[ref].messages, ok))
            /\ deleted' = Written(deleted, sessionsCache, ok)
            /\ audit' = [audit EXCEPT ![ref].serial = @ /\ InFlightOn(ref) = {}]
            /\ last' = Step(ActionOf(body), body, StreamResponse, SaveOutcome(ok),
                            formattedMessages(session))
    /\ UNCHANGED <<sessionsCache, now, apiKey>>

chatBranchAnyRole(body) ==
    LET conversationId == body.dataConversationId IN
    IF conversationId = Nil
    THEN handleDirectChat(body)
    ELSE IF conversationId \notin DOMAIN sessionsCache
    THEN Reply(body, HandlerCatch(
             createError(404, <<"Session not found: ", conversationId>>)))
    ELSE IF ~body.hasMessages
    THEN \* body.messages.length on undefined throws a TypeError
         Reply(body, HandlerCatch(createError(500, "TypeError")))
    ELSE IF Len(body.messages) = 0
    THEN Reply(body, HandlerCatch(createError(400, "Invalid message format")))
    ELSE acceptSessionChat(body, conversationId, body.messages[Len(body.messages)])

chatBranchPushesFirst(body) ==
    LET conversationId == body.dataConversationId IN
    IF conversationId = Nil
    THEN handleDirectChat(body)
    ELSE IF conversationId \notin DOMAIN sessionsCache
    THEN Reply(body, HandlerCatch(
             createError(404, <<"Session not found: ", conversationId>>)))
    ELSE IF ~body.hasMessages
    THEN Reply(body, HandlerCatch(createError(500, "TypeError")))
    ELSE IF Len(body.messages) = 0
    THEN Reply(body, HandlerCatch(createError(400, "Invalid message format")))
    ELSE IF body.messages[Len(body.messages)].role # "user"
    THEN /\ heap' = [heap EXCEPT ![sessionsCache[conversationId]].messages =
                        Append(@, body.messages[Len(body.messages)])]
         /\ last' = Step(ActionOf(body), body,
                         HandlerCatch(createError(400, "Invalid message format")),
                         "none", <<>>)
         /\ UNCHANGED <<sessionsCache, file, now, apiKey, reqs, audit, deleted, used>>
    ELSE acceptSessionChat(body, conversationId, body.messages[Len(body.messages)])

chatBranch(body) ==
    LET conversationId == body.dataConversationId IN
    IF conversationId = Nil
    THEN handleDirectChat(body)
    ELSE IF conversationId \notin DOMAIN sessionsCache
    THEN Reply(body, HandlerCatch(
             createError(404, <<"Session not found: ", conversationId>>)))
    ELSE IF ~body.hasMessages
    THEN \* body.messages.length on undefined throws a TypeError
         Reply(body, HandlerCatch(createError(500, "TypeError")))
    ELSE IF Len(body.messages) = 0
            \/ body.messages[Len(body.messages)].role # "user"
    THEN Reply(body, HandlerCatch(createError(400, "Invalid message format")))
    ELSE acceptSessionChat(body, conversationId, body.messages[Len(body.messages)])

(***************************************************************************)
(* The request handler (defineEventHandler)                                *)
(***************************************************************************)
HandlerChecksKeyForChat(body) ==
    CASE ActionOf(body) = "create" ->
             createSession(body, IF body.metadata = Nil THEN EmptyMeta
                                                        ELSE body.metadata)
      [] ActionOf(body) = "get" ->
             IF body.conversationId = Nil
             THEN Reply(body, HandlerCatch(
                      createError(400, "Missing conversationId for get action")))
             ELSE Reply(body, HandlerCatch(getSessionInfo(body.conversationId)))
      [] ActionOf(body) = "delete" ->
             IF body.conversationId = Nil
             THEN Reply(body, HandlerCatch(
                      createError(400, "Missing conversationId for delete action")))
             ELSE deleteSession(body, body.conversationId)
      [] OTHER -> IF ~apiKey
                  THEN Reply(body, createError(500, "Missing OpenAI API key"))
                  ELSE chatBranch(body)

Handler(body) ==
    IF ~apiKey
    THEN Reply(body, createError(500, "Missing OpenAI API key"))
    ELSE CASE ActionOf(body) = "create" ->
                createSession(body, IF body.metadata = Nil THEN EmptyMeta
                                                           ELSE body.metadata)
           [] ActionOf(body) = "get" ->
                IF body.conversationId = Nil
                THEN Reply(body, HandlerCatch(
                         createError(400, "Missing conversationId for get action")))
                ELSE Reply(body, HandlerCatch(getSessionInfo(body.conversationId)))
           [] ActionOf(body) = "delete" ->
                IF body.conversationId = Nil
                THEN Reply(body, HandlerCatch(
                         createError(400, "Missing conversationId for delete action")))
                ELSE deleteSession(body, body.conversationId)
           [] OTHER -> chatBranch(body)

\* The requests the clients send (pages/mcp/[id].vue, MCPSidebar.vue).
CreateBody(m) == [NoBody EXCEPT !.action = "create", !.metadata = m]
GetBody(c) == [NoBody EXCEPT !.action = "get", !.conversationId = c]
DeleteBody(c) == [NoBody EXCEPT !.action = "delete", !.conversationId = c]
ChatBody(c, ms) ==
    [NoBody EXCEPT !.dataConversationId = c, !.hasMessages = TRUE, !.messages = ms]
ChatBodyNoMessages(c) == [NoBody EXCEPT !.dataConversationId = c]
GetMessagesBody(c) == [NoBody EXCEPT !.action = "getMessages", !.conversationId = c]
ListSessionsBody == [NoBody EXCEPT !.action = "listSessions"]

CreateRequest ==
    /\ \E m \in Metas \cup {Nil} : Handler(CreateBody(m))
    /\ UNCHANGED client

GetRequest ==
    /\ \E c \in Ids \cup {Nil} : Handler(GetBody(c))
    /\ UNCHANGED client

DeleteRequest ==
    /\ \E c \in Ids \cup {Nil} : Handler(DeleteBody(c))
    /\ UNCHANGED client

ChatRequest ==
    /\ \E c \in Ids \cup {Nil}, ms \in MessageLists : Handler(ChatBody(c, ms))
    /\ UNCHANGED client

ChatRequestNoMessages ==
    /\ \E c \in Ids \cup {Nil} : Handler(ChatBodyNoMessages(c))
    /\ UNCHANGED client

GetMessagesRequest ==
    /\ \E c \in Ids \cup {Nil} : Handler(GetMessagesBody(c))
    /\ UNCHANGED client

ListSessionsRequest ==
    /\ Handler(ListSessionsBody)
    /\ UNCHANGED client

(***************************************************************************)
(* Provider events                                                         *)
(***************************************************************************)
\* The request a provider event belongs to, by its conversation id.
EventBody(k) == [NoBody EXCEPT !.dataConversationId = reqs[k].conversationId]

\* What the end of the stream delivers: the response, if the caller is
\* still there to read it.
Delivered(k) == IF reqs[k].connected THEN StreamResponse ELSE NoResponse

\* onFinish of handleSessionChat: push the assistant message on the captured
\* object and save.  onFinish of handleDirectChat only logs.
onFinishNoSave(k, text) ==
    LET ref == reqs[k].session
        rq == RemoveAt(reqs, k)
    IN /\ reqs' = rq
       /\ IF ref = 0
          THEN /\ last' = Step("finish", EventBody(k), NoResponse, "none", <<>>)
               /\ UNCHANGED <<heap, audit>>
          ELSE LET pushed == [heap EXCEPT ![ref] = pushAssistantMessage(@, text)]
                   hp == Collect(pushed, sessionsCache, rq)
               IN /\ heap' = hp
                  /\ audit' = [r \in DOMAIN hp |->
                                 IF r = ref
                                 THEN [audit[r] EXCEPT !.done =
                                          @ \o <<UserMsg(reqs[k].user),
                                                 AssistantMsg(text)>>]
                                 ELSE audit[r]]
                  /\ last' = Step("finish", EventBody(k), NoResponse, "none", <<>>)
       /\ UNCHANGED <<sessionsCache, file, now, apiKey, deleted, used>>

onFinishIfConnected(k, text) ==
    LET ref == reqs[k].session
        rq == RemoveAt(reqs, k)
    IN /\ reqs' = rq
       /\ IF ref = 0 \/ ~reqs[k].connected
          THEN /\ heap' = Collect(heap, sessionsCache, rq)
               /\ audit' = [r \in DOMAIN Collect(heap, sessionsCache, rq) |->
                              IF r = ref THEN [audit[r] EXCEPT !.serial = FALSE]
                              ELSE audit[r]]
               /\ last' = Step("finish", EventBody(k), Delivered(k), "none", <<>>)
               /\ UNCHANGED <<file, deleted, used>>
          ELSE \E ok \in WriteOutcomes(0) :
                 LET pushed == [heap EXCEPT ![ref] = pushAssistantMessage(@, text)]
                     hp == Collect(pushed, sessionsCache, rq)
                 IN /\ heap' = hp
                    /\ file' = saveSessions(sessionsCache, hp, file, ok)
                    /\ deleted' = Written(deleted, sessionsCache, ok)
                    /\ used' = Failed(used, ok)
                    /\ audit' = [r \in DOMAIN hp |->
                                   IF r = ref
                                   THEN [audit[r] EXCEPT !.done =
                                            @ \o <<UserMsg(reqs[k].user),
                                                   AssistantMsg(text)>>]
                                   ELSE audit[r]]
                    /\ last' = Step("finish", EventBody(k), Delivered(k),
                                    SaveOutcome(ok), <<>>)
       /\ UNCHANGED <<sessionsCache, now, apiKey>>

onFinish(k, text) ==
    LET ref == reqs[k].session
        rq == RemoveAt(reqs, k)
    IN /\ reqs' = rq
       /\ IF ref = 0
          THEN /\ last' = Step("finish", EventBody(k), Delivered(k), "none", <<>>)
               /\ UNCHANGED <<heap, file, audit, deleted, used>>
          ELSE \E ok \in WriteOutcomes(0) :
                 LET pushed == [heap EXCEPT ![ref] = pushAssistantMessage(@, text)]
                     hp == Collect(pushed, sessionsCache, rq)
                 IN /\ heap' = hp
                    /\ file' = saveSessions(sessionsCache, hp, file, ok)
                    /\ deleted' = Written(deleted, sessionsCache, ok)
                    /\ used' = Failed(used, ok)
                    /\ audit' = [r \in DOMAIN hp |->
                                   IF r = ref
                                   THEN [audit[r] EXCEPT !.done =
                                            @ \o <<UserMsg(reqs[k].user),
                                                   AssistantMsg(text)>>]
                                   ELSE audit[r]]
                    /\ last' = Step("finish", EventBody(k), Delivered(k),
                                    SaveOutcome(ok), <<>>)
       /\ UNCHANGED <<sessionsCache, now, apiKey>>

Finish ==
    /\ \E k \in DOMAIN reqs, text \in ReplyTexts : onFinish(k, text)
    /\ UNCHANGED client

ProviderErrorRollsBack ==
    \E k \in DOMAIN reqs :
        LET rq == RemoveAt(reqs, k)
            ref == reqs[k].session
            popped == IF ref = 0 THEN heap
                      ELSE [heap EXCEPT ![ref].messages = SubSeq(@, 1, Len(@) - 1)]
            hp == Collect(popped, sessionsCache, rq)
        IN /\ reqs' = rq
           /\ heap' = hp
           /\ audit' = [r \in DOMAIN hp |->
                          IF r = ref THEN [audit[r] EXCEPT !.serial = FALSE]
                          ELSE audit[r]]
           /\ last' = Step("error", EventBody(k),
                           createError(500, "stream failed"), "none", <<>>)
           /\ UNCHANGED <<sessionsCache, file, now, apiKey, deleted, used, client>>

ProviderErrorStoresPartial ==
    \E k \in DOMAIN reqs, text \in ReplyTexts :
        LET rq == RemoveAt(reqs, k)
            ref == reqs[k].session
            pushed == IF ref = 0 THEN heap
                      ELSE [heap EXCEPT ![ref] = pushAssistantMessage(@, text)]
            hp == Collect(pushed, sessionsCache, rq)
        IN /\ reqs' = rq
           /\ heap' = hp
           /\ audit' = [r \in DOMAIN hp |->
                          IF r = ref THEN [audit[r] EXCEPT !.serial = FALSE]
                          ELSE audit[r]]
           /\ last' = Step("error", EventBody(k),
                           createError(500, "stream failed"), "none", <<>>)
           /\ UNCHANGED <<sessionsCache, file, now, apiKey, deleted, used, client>>

\* The provider fails: the stream fails and onFinish is never called.
ProviderError ==
    \E k \in DOMAIN reqs :
        LET rq == RemoveAt(reqs, k)
            hp == Collect(heap, sessionsCache, rq)
        IN /\ reqs' = rq
           /\ heap' = hp
           /\ audit' = [r \in DOMAIN hp |->
                          IF r = reqs[k].session
                          THEN [audit[r] EXCEPT !.serial = FALSE]
                          ELSE audit[r]]
           /\ last' = Step("error", EventBody(k),
                           createError(500, "stream failed"), "none", <<>>)
           /\ UNCHANGED <<sessionsCache, file, now, apiKey, deleted, used, client>>

(***************************************************************************)
(* Environment                                                             *)
(***************************************************************************)
\* The caller of a streaming chat goes away: the tab is closed, or the
\* client's stop() aborts its fetch.  Nothing in the handler, in
\* handleSessionChat or in handleDirectChat observes it.
Disconnect ==
    \E k \in DOMAIN reqs :
        /\ reqs[k].connected
        /\ reqs' = [reqs EXCEPT ![k].connected = FALSE]
        /\ last' = Step("disconnect", EventBody(k), NoResponse, "none", <<>>)
        /\ UNCHANGED <<sessionsCache, heap, file, now, apiKey, audit, deleted, used,
                       client>>

Tick ==
    /\ Spent < MaxBudget
    /\ now' = now + 1
    /\ last' = Step("tick", NoBody, NoResponse, "none", <<>>)
    /\ UNCHANGED <<sessionsCache, heap, file, apiKey, reqs, audit, deleted, used,
                   client>>

\* The restart loses nothing of the session under id: it is in the map,
\* no call is in flight on it, and the file holds its current content.
Survives(id) ==
    /\ id \in DOMAIN sessionsCache
    /\ InFlightOn(sessionsCache[id]) = {}
    /\ file.state = "valid"
    /\ id \in DOMAIN file.data
    /\ file.data[id] = stringifySession(heap[sessionsCache[id]])

\* The process ends and a new one starts: module state is rebuilt by
\* loadSessions() (line 77); calls in flight die with the old process.
Restart ==
    /\ sessionsCache' = loadedCache(file)
    /\ heap' = loadedHeap(file)
    /\ reqs' = <<>>
    /\ apiKey' \in BOOLEAN
    /\ audit' = [r \in DOMAIN loadedHeap(file) |->
                   LET id == LoadedIds(file)[r] IN
                   IF Survives(id) THEN audit[sessionsCache[id]]
                   ELSE [serial |-> FALSE, done |-> <<>>]]
    /\ last' = Step("start", NoBody, NoResponse, "none", <<>>)
    /\ UNCHANGED <<file, now, used, deleted, client>>

Next ==
    \/ CreateRequest
    \/ GetRequest
    \/ DeleteRequest
    \/ ChatRequest
    \/ ChatRequestNoMessages
    \/ GetMessagesRequest
    \/ ListSessionsRequest
    \/ Finish
    \/ ProviderError
    \/ Disconnect
    \/ Tick
    \/ Restart

Spec == Init /\ [][Next]_vars

\* A process started on a sessions file it finds in .data: none, one that
\* is not JSON, or one with an entry that is not a session object.
OnDisk(id) ==
    [conversationId |-> id,
     messages       |-> <<>>,
     metadata       |-> EmptyMeta,
     createdAt      |-> toISOString(0),
     updatedAt      |-> toISOString(0)]

FoundFiles ==
    {NoFile, UnparseableFile,
     [state |-> "valid",
      data  |-> [id \in Ids |-> IF id = IdSeq[1] THEN OnDisk(id) ELSE JsonNull]],
     [state |-> "valid",
      data  |-> [id \in Ids |-> IF id = IdSeq[1] THEN JsonNull ELSE OnDisk(id)]]}

InitFoundFile == \E f \in FoundFiles : StartOn(f)

SpecFoundFile == InitFoundFile /\ [][Next]_vars

\* The process keeps taking steps: requests keep arriving, provider calls
\* end, the process may restart.
FairSpec == Spec /\ WF_vars(Next) /\ WF_vars(Finish \/ ProviderError)

(***************************************************************************)
(* Client steps                                                            *)
(***************************************************************************)
Idle(c) == c.dialog = NoDialog

Room(c) == Cardinality(c.pending) < MaxPending

Waiting(fn) == {call \in client.pending : call.fn = fn}

\* The user loads the page at a URL.
OpenPage ==
    /\ \E id \in Routes :
         client' = OpenedAt(id, client.localStorage, client.removed)
    /\ UNCHANGED server

\* Back, forward or a link: the route id changes under the mounted page.
HistoryNavigation ==
    /\ Idle(client) /\ Room(client)
    /\ \E id \in Routes \ {client.route} :
         client' = [routerPush(client, id) EXCEPT !.event = Event("navigate", id)]
    /\ UNCHANGED server

\* Sidebar: a click on a listed session.
selectSession ==
    /\ Idle(client) /\ Room(client)
    /\ \E id \in client.sessions :
         client' = [routerPush(client, id) EXCEPT !.event = Event("selectSession", id)]
    /\ UNCHANGED server

\* Sidebar: the new-chat button.
createNewChat ==
    /\ Idle(client)
    /\ client' = [routerPush(client, "new") EXCEPT !.event = Event("createNewChat", Nil)]
    /\ UNCHANGED server

\* getSessionInfo answers the watcher: the session becomes the active one
\* and its messages are requested; a failure sends the page to /mcp/new.
WatchGetSessionInfoResponse ==
    /\ \E call \in Waiting("watch.getSessionInfo") :
         \/ client' = [post([settle(client, call) EXCEPT !.activeSession = call.id],
                            "watch.loadSessionMessages", call.id)
                         EXCEPT !.event = Event("watch.getSessionInfo", call.id)]
         \/ client' = [routerPush([settle(client, call) EXCEPT !.isPending = FALSE],
                                  "new")
                         EXCEPT !.event = Event("watch.catch", call.id)]
    /\ UNCHANGED server

\* loadSessionMessages returns (a list, or [] on failure): the load is done.
WatchLoadSessionMessagesResponse ==
    /\ \E call \in Waiting("watch.loadSessionMessages") :
         client' = [settle(client, call) EXCEPT
                        !.isPending = FALSE,
                        !.event = Event("watch.loadSessionMessages", call.id)]
    /\ UNCHANGED server

\* The page's create button (inert while isLoading; it shows isPending as
\* its loading state, taken to make it inert too).
pageCreateSession ==
    /\ Idle(client) /\ Room(client)
    /\ ~client.isLoading /\ ~client.isPending
    /\ client' = [post(client, "createSession", Nil) EXCEPT
                      !.isPending = TRUE,
                      !.event = Event("createSession", Nil)]
    /\ UNCHANGED server

\* The create answers: the id is remembered in localStorage and the page
\* moves to its route.
CreateSessionResponse ==
    /\ \E call \in Waiting("createSession") :
         \/ \E id \in Ids :
              client' = [routerPush([settle(client, call) EXCEPT
                                         !.localStorage = id,
                                         !.removed = @ \ {id}], id)
                           EXCEPT !.isPending = FALSE,
                                  !.event = Event("createSession.response", id)]
         \/ client' = [settle(client, call) EXCEPT
                           !.isPending = FALSE,
                           !.event = Event("createSession.catch", Nil)]
    /\ UNCHANGED server

\* submitMessage: inert while disabled (isLoading or no active session);
\* handleSubmit sends the chat request with the active session's id.
submitMessage ==
    /\ Idle(client) /\ Room(client)
    /\ ~client.isLoading /\ client.activeSession # Nil
    /\ client' = [post(client, "chat", client.activeSession) EXCEPT
                      !.isLoading = TRUE,
                      !.event = Event("submitMessage", client.activeSession)]
    /\ UNCHANGED server

\* The stream ends: isLoading falls and onFinish calls updateSessionInfo.
ChatFinished ==
    /\ \E call \in Waiting("chat") :
         LET done == [settle(client, call) EXCEPT !.isLoading = FALSE] IN
         client' = [(IF done.activeSession = Nil THEN done
                     ELSE post(done, "updateSessionInfo", done.activeSession))
                      EXCEPT !.event = Event("onFinish", call.id)]
    /\ UNCHANGED server

\* The stream fails, or the user stops it.
ChatStopped ==
    /\ \E call \in Waiting("chat") :
         client' = [settle(client, call) EXCEPT
                        !.isLoading = FALSE,
                        !.event = Event("stop", call.id)]
    /\ UNCHANGED server

\* updateSessionInfo gets its answer (or fails, which it only logs).
UpdateSessionInfoResponse ==
    /\ \E call \in Waiting("updateSessionInfo") :
         \/ client' = [settle(client, call) EXCEPT
                           !.activeSession = call.id,
                           !.event = Event("updateSessionInfo", call.id)]
         \/ client' = [settle(client, call) EXCEPT
                           !.event = Event("updateSessionInfo.catch", call.id)]
    /\ UNCHANGED server

\* The page's delete button: inert without an active session or while
\* isLoading (or isPending); it opens the confirmation dialog.
pageDeleteSession ==
    /\ Idle(client)
    /\ client.activeSession # Nil /\ ~client.isLoading /\ ~client.isPending
    /\ client' = [client EXCEPT !.dialog = [from |-> "page", id |-> Nil],
                                !.event = Event("useConfirm", Nil)]
    /\ UNCHANGED server

\* The sidebar's delete icon of a listed session opens the dialog.
sidebarDeleteSession ==
    /\ Idle(client)
    /\ \E id \in client.sessions :
         client' = [client EXCEPT !.dialog = [from |-> "sidebar", id |-> id],
                                  !.event = Event("useConfirm", id)]
    /\ UNCHANGED server

CancelDialog ==
    /\ ~Idle(client)
    /\ client' = [client EXCEPT
                      !.dialog = NoDialog,
                      !.isPending = IF client.dialog.from = "page" THEN FALSE ELSE @,
                      !.event = Event("cancel", Nil)]
    /\ UNCHANGED server

\* The user confirms: the delete request is sent, by the page for the
\* session active now, by the sidebar for the session of the icon.
ConfirmDialog ==
    /\ ~Idle(client) /\ Room(client)
    /\ LET closed == [client EXCEPT !.dialog = NoDialog] IN
       IF client.dialog.from = "sidebar"
       THEN client' = [post(closed, "sidebar.deleteSession", client.dialog.id)
                         EXCEPT !.event = Event("sidebar.deleteSession",
                                                client.dialog.id)]
       ELSE IF client.activeSession = Nil
       THEN client' = [closed EXCEPT !.isPending = FALSE,
                                     !.event = Event("deleteSession.catch", Nil)]
       ELSE client' = [post(closed, "page.deleteSession", client.activeSession)
                         EXCEPT !.isPending = TRUE,
                                !.event = Event("page.deleteSession",
                                                client.activeSession)]
    /\ UNCHANGED server

\* The page's delete answers: localStorage forgets the session and the page
\* moves to /mcp/new.
PageDeleteResponse ==
    /\ \E call \in Waiting("page.deleteSession") :
         \/ client' = [routerPush([settle(client, call) EXCEPT
                                       !.localStorage = Nil,
                                       !.removed = @ \cup {call.id}], "new")
                         EXCEPT !.isPending = FALSE,
                                !.event = Event("page.deleted", call.id)]
         \/ client' = [settle(client, call) EXCEPT
                           !.isPending = FALSE,
                           !.event = Event("page.deleteSession.catch", call.id)]
    /\ UNCHANGED server

\* The sidebar's delete answers: the session leaves the list, and the page
\* moves to /mcp/new when it was the active one.
SidebarDeleteResponse ==
    /\ \E call \in Waiting("sidebar.deleteSession") :
         \/ LET gone == [settle(client, call) EXCEPT
                             !.sessions = @ \ {call.id},
                             !.removed = @ \cup {call.id}]
            IN client' = [(IF gone.activeSession = call.id
                           THEN routerPush(gone, "new") ELSE gone)
                            EXCEPT !.event = Event("sidebar.deleted", call.id)]
         \/ client' = [settle(client, call) EXCEPT
                           !.event = Event("sidebar.deleteSession.catch", call.id)]
    /\ UNCHANGED server

\* The sidebar asks for the list: every 30 seconds and on every route change.
fetchSessions ==
    /\ Room(client)
    /\ Waiting("fetchSessions") = {}
    /\ client' = [post(client, "fetchSessions", Nil) EXCEPT
                      !.event = Event("fetchSessions", Nil)]
    /\ UNCHANGED server

\* The list arrives (data.sessions), or the request fails.
FetchSessionsResponse ==
    /\ \E call \in Waiting("fetchSessions") :
         \/ \E list \in SUBSET Ids :
              client' = [settle(client, call) EXCEPT
                             !.sessions = list,
                             !.event = Event("fetchSessions.response", Nil)]
         \/ client' = [settle(client, call) EXCEPT
                           !.event = Event("fetchSessions.catch", Nil)]
    /\ UNCHANGED server

ClientNext ==
    \/ OpenPage
    \/ HistoryNavigation
    \/ selectSession
    \/ createNewChat
    \/ WatchGetSessionInfoResponse
    \/ WatchLoadSessionMessagesResponse
    \/ pageCreateSession
    \/ CreateSessionResponse
    \/ submitMessage
    \/ ChatFinished
    \/ ChatStopped
    \/ UpdateSessionInfoResponse
    \/ pageDeleteSession
    \/ sidebarDeleteSession
    \/ CancelDialog
    \/ ConfirmDialog
    \/ PageDeleteResponse
    \/ SidebarDeleteResponse
    \/ fetchSessions
    \/ FetchSessionsResponse

\* The browser talks to a server that has its API key.
ClientInit == Init /\ apiKey

ClientSpec == ClientInit /\ [][ClientNext]_vars

(***************************************************************************)
(* Properties                                                              *)
(***************************************************************************)
\* The file holds exactly the sessions of the in-memory map, serialized.
FileIsSnapshot ==
    /\ file.state = "valid"
    /\ DOMAIN file.data = DOMAIN sessionsCache
    /\ \A id \in DOMAIN sessionsCache :
         file.data[id] = stringifySession(heap[sessionsCache[id]])

Answered(action) ==
    /\ last.op = action
    /\ last.resp.kind = "json"

GivenMetadata == IF last.body.metadata = Nil THEN EmptyMeta ELSE last.body.metadata

\* C1: in the state a create request leaves behind, the returned id names a
\* stored session with no messages, the metadata of the request and
\* createdAt = updatedAt; saveSessions ran, and the file is the snapshot of
\* the map when its write succeeded; the response carries that id, the
\* metadata and messageCount 0; and a get for that id answers with the same
\* id and messageCount 0.
C1_CreateThenGet ==
    Answered("create") =>
        LET id == last.resp.body.conversationId
            info == HandlerCatch(getSessionInfo(id))
        IN /\ id \in DOMAIN sessionsCache
           /\ heap[sessionsCache[id]].conversationId = id
           /\ heap[sessionsCache[id]].createdAt = now
           /\ heap[sessionsCache[id]].messages = <<>>
           /\ heap[sessionsCache[id]].metadata = GivenMetadata
           /\ heap[sessionsCache[id]].createdAt = heap[sessionsCache[id]].updatedAt
           /\ last.save \in {"ok", "failed"}
           /\ (last.save = "ok" => FileIsSnapshot)
           /\ last.resp.body.messageCount = 0
           /\ last.resp.body.metadata = GivenMetadata
           /\ info.kind = "json"
           /\ info.body.conversationId = id
           /\ info.body.messageCount = 0

C1_Witness ==
    /\ Answered("create")
    /\ last.body.metadata \in Metas
    /\ last.save = "ok"
    /\ Cardinality(DOMAIN sessionsCache) = 2

\* C2: a stored session whose chat rounds ran one at a time (every call
\* on it completed before the next request on it was accepted, none failed)
\* and that has no call in flight holds exactly the completed rounds in
\* order, user_1, assistant_1, ..., user_k, assistant_k, each assistant
\* content being the text onFinish received for that round, and get
\* reports the length of that history as messageCount.
C2_SerialRounds ==
    \A id \in DOMAIN sessionsCache :
        LET ref == sessionsCache[id]
            messages == heap[ref].messages
        IN (audit[ref].serial /\ InFlightOn(ref) = {}) =>
              /\ messages = audit[ref].done
              /\ Len(messages) % 2 = 0
              /\ \A i \in 1..Len(messages) :
                   messages[i].role = IF i % 2 = 1 THEN "user" ELSE "assistant"
              /\ getSessionInfo(id).body.messageCount = Len(messages)

C2_Witness ==
    \E id \in DOMAIN sessionsCache :
        LET ref == sessionsCache[id] IN
        /\ audit[ref].serial
        /\ InFlightOn(ref) = {}
        /\ Len(heap[ref].messages) = 4
        /\ heap[ref].messages[1].content # heap[ref].messages[3].content
        /\ heap[ref].messages[2].content # heap[ref].messages[4].content

\* C3: every step that appends a message to a session sets that session's
\* updatedAt to the time of the append.
C3_UpdatedAtAdvances ==
    [][last'.op # "start" =>
         \A r \in DOMAIN heap \cap DOMAIN heap' :
             Len(heap'[r].messages) > Len(heap[r].messages)
                 => heap'[r].updatedAt = now']_vars

\* A session chat request was accepted in this step.
AcceptStep(id) ==
    /\ last'.op = "chat"
    /\ last'.resp.kind = "stream"
    /\ last'.body.dataConversationId = id

\* The provider call k failed in this step.
ErrorStepOf(k) ==
    /\ last'.op = "error"
    /\ reqs' = RemoveAt(reqs, k)

\* Nothing but call k's own request has touched its session since it was
\* accepted: the session is still stored under the id and holds the history
\* the request found followed by its user message.
Isolated(k) ==
    /\ reqs[k].session # 0
    /\ reqs[k].conversationId \in DOMAIN sessionsCache
    /\ sessionsCache[reqs[k].conversationId] = reqs[k].session
    /\ heap[reqs[k].session].messages
          = Append(reqs[k].before, UserMsg(reqs[k].user))

FileHistory(f, id) ==
    IF f.state = "valid" /\ id \in DOMAIN f.data THEN f.data[id].messages
    ELSE <<"no such session">>

\* C4 (as amended): accepting a session chat request appends exactly its
\* user message to the stored history, and to the file when the write does
\* not fail; a provider error then changes neither the map, nor any session,
\* nor the file, so the history stays the one before the request followed
\* by that user message, in memory and, if the user turn was written, in
\* the file.
C4_ErrorKeepsUserTurn ==
    [][/\ \A id \in Ids :
            AcceptStep(id) =>
              LET ref == sessionsCache[id]
                  content == last'.body.messages[Len(last'.body.messages)].content
                  history == Append(heap[ref].messages, UserMsg(content))
              IN /\ heap'[ref].messages = history
                 /\ (last'.save = "ok" => FileHistory(file', id) = history)
       /\ \A k \in DOMAIN reqs :
            (ErrorStepOf(k) /\ reqs[k].session # 0) =>
              /\ sessionsCache' = sessionsCache
              /\ file' = file
              /\ \A r \in DOMAIN heap' : heap'[r] = heap[r]
              /\ Isolated(k) =>
                   LET history == Append(reqs[k].before, UserMsg(reqs[k].user))
                   IN /\ heap'[reqs[k].session].messages = history
                      /\ (reqs[k].saved =>
                            FileHistory(file', reqs[k].conversationId) = history)
      ]_vars

\* C4 as claimed: after the provider error the history before the request
\* followed by the user message is the history in memory and in the file.
C4_ErrorKeepsUserTurnInFile ==
    [][\A k \in DOMAIN reqs :
         (ErrorStepOf(k) /\ Isolated(k)) =>
            LET history == Append(reqs[k].before, UserMsg(reqs[k].user))
            IN /\ heap'[reqs[k].session].messages = history
               /\ FileHistory(file', reqs[k].conversationId) = history
      ]_vars

C4_Witness ==
    /\ last.op = "error"
    /\ last.body.dataConversationId \in DOMAIN sessionsCache
    /\ LET messages == heap[sessionsCache[last.body.dataConversationId]].messages
       IN /\ Len(messages) = 1
          /\ messages[1].role = "user"
          /\ FileHistory(file, last.body.dataConversationId) = messages

\* C5: a get, or a session chat, for a conversation id that is not in the
\* store is answered with a 404 error whose message contains the id.
C5_NotFound ==
    LET id == IF last.op = "get" THEN last.body.conversationId
              ELSE last.body.dataConversationId
    IN (/\ apiKey
        /\ last.op \in {"get", "chat"}
        /\ id # Nil
        /\ id \notin DOMAIN sessionsCache)
       => /\ last.resp.kind = "error"
          /\ last.resp.status = 404
          /\ last.resp.message = <<"Session not found: ", id>>

\* The newest inbound message of a chat request is missing or is not a
\* user message.
MalformedNewest(body) ==
    \/ ~body.hasMessages
    \/ Len(body.messages) = 0
    \/ body.messages[Len(body.messages)].role # "user"

\* C6: a get or delete without conversationId, and a chat on a stored
\* session whose newest inbound message is missing or not a user message,
\* is answered with a 400 error.
C6_InvalidInput ==
    apiKey =>
      /\ (last.op \in {"get", "delete"} /\ last.body.conversationId = Nil)
           => (last.resp.kind = "error" /\ last.resp.status = 400)
      /\ (/\ last.op = "chat"
          /\ last.body.dataConversationId \in DOMAIN sessionsCache
          /\ MalformedNewest(last.body))
           => (last.resp.kind = "error" /\ last.resp.status = 400)

\* A delete request for id c is handled in this step.
DeleteStep(c) ==
    /\ apiKey
    /\ last'.op = "delete"
    /\ last'.body.conversationId = c

\* C7: a delete of a stored id answers success:true and removes that id and
\* no other; a delete of an absent id (in particular every delete after the
\* first) answers success:false, raises no error and leaves the map, the
\* sessions and the file unchanged.
C7_DeleteIdempotent ==
    [][\A c \in Ids :
         DeleteStep(c) =>
           /\ last'.resp.kind = "json"
           /\ c \notin DOMAIN sessionsCache'
           /\ IF c \in DOMAIN sessionsCache
              THEN /\ last'.resp.body.success = TRUE
                   /\ DOMAIN sessionsCache' = DOMAIN sessionsCache \ {c}
                   /\ \A d \in DOMAIN sessionsCache' :
                        heap'[sessionsCache'[d]] = heap[sessionsCache[d]]
              ELSE /\ last'.resp.body.success = FALSE
                   /\ sessionsCache' = sessionsCache
                   /\ heap' = heap
                   /\ file' = file
      ]_vars

C7_Witness ==
    /\ last.op = "delete"
    /\ last.resp.kind = "json"
    /\ last.resp.body.success = FALSE
    /\ last.body.conversationId \in DOMAIN deleted
    /\ last.body.conversationId \notin DOMAIN sessionsCache

InFile(id) == file.state = "valid" /\ id \in DOMAIN file.data

\* C8 (as amended): once a delete has answered success:true for an id and a
\* write of the store file made at or after that delete, while the id is
\* not in the map, has succeeded, the id is in neither the map nor the file
\* in every later state, restarts included, until a create generates the
\* same id again.
C8_DeletedStaysGone ==
    \A id \in DOMAIN deleted :
        deleted[id] => (id \notin DOMAIN sessionsCache /\ ~InFile(id))

\* C8 as claimed: in every state after a delete answered success:true for
\* an id (and no create has generated it again), the id is in neither the
\* map nor the file.
C8_DeletedGoneFromFile ==
    \A id \in DOMAIN deleted :
        id \notin DOMAIN sessionsCache /\ ~InFile(id)

C8_Witness ==
    /\ last.op = "start"
    /\ file.state = "valid"
    /\ \E id \in DOMAIN deleted :
         /\ deleted[id]
         /\ id \notin DOMAIN sessionsCache
    /\ sessionsCache # <<>>

\* C9: a getMessages request with a conversationId is answered with the
\* stored messages of that session, or with a 404 error when the id is not
\* stored; the answer is never a provider stream.
C9_GetMessages ==
    (/\ apiKey
     /\ last.op = "getMessages"
     /\ last.body.conversationId # Nil)
    => /\ last.resp.kind # "stream"
       /\ IF last.body.conversationId \in DOMAIN sessionsCache
          THEN /\ last.resp.kind = "json"
               /\ last.resp.body
                    = heap[sessionsCache[last.body.conversationId]].messages
          ELSE /\ last.resp.kind = "error"
               /\ last.resp.status = 404

\* C10: a listSessions request is answered with one entry per stored
\* session, carrying its id and its current message count.
C10_ListSessions ==
    (apiKey /\ last.op = "listSessions")
    => /\ last.resp.kind = "json"
       /\ Len(last.resp.body) = Cardinality(DOMAIN sessionsCache)
       /\ \A id \in DOMAIN sessionsCache :
            \E i \in 1..Len(last.resp.body) :
               /\ last.resp.body[i].id = id
               /\ last.resp.body[i].messageCount
                    = Len(heap[sessionsCache[id]].messages)

\* A get request for the stored id c is handled in this step.
GetStep(c) ==
    /\ apiKey
    /\ last'.op = "get"
    /\ last'.body.conversationId = c
    /\ c \in DOMAIN sessionsCache

\* C11: a get of a stored id answers with exactly the session's id,
\* metadata, createdAt, updatedAt and a messageCount equal to the length of
\* its history, without the message array, and changes neither the map, nor
\* any session, nor the file.
C11_GetIsProjection ==
    [][\A c \in Ids :
         GetStep(c) =>
           LET session == heap[sessionsCache[c]]
               info == last'.resp.body
           IN /\ last'.resp.kind = "json"
              /\ DOMAIN info = {"conversationId", "metadata", "createdAt",
                                "updatedAt", "messageCount"}
              /\ info.conversationId = c
              /\ info.metadata = session.metadata
              /\ newDate(info.createdAt) = session.createdAt
              /\ newDate(info.updatedAt) = session.updatedAt
              /\ info.messageCount = Len(session.messages)
              /\ sessionsCache' = sessionsCache
              /\ heap' = heap
              /\ file' = file
              /\ last'.save = "none"
      ]_vars

C11_Witness ==
    /\ last.op = "get"
    /\ last.resp.kind = "json"
    /\ last.resp.body.messageCount = 2
    /\ last.resp.body.metadata \in Metas

\* The session stored under id, as a value.
Stored(cache, hp, id) == hp[cache[id]]

\* C12: if no save has failed, a restart yields a session map identical to
\* the one just before it: the same ids, and under each id the same
\* messages in order, the same metadata and the same timestamps.
C12_RestartRoundTrip ==
    [][(last'.op = "start" /\ used.fails = 0) =>
          /\ DOMAIN sessionsCache' = DOMAIN sessionsCache
          /\ \A id \in DOMAIN sessionsCache :
               Stored(sessionsCache', heap', id) = Stored(sessionsCache, heap, id)
      ]_vars

C12_Witness ==
    /\ last.op = "start"
    /\ used.fails = 0
    /\ \E id \in DOMAIN sessionsCache :
         /\ Len(Stored(sessionsCache, heap, id).messages) = 2
         /\ Stored(sessionsCache, heap, id).updatedAt
               # Stored(sessionsCache, heap, id).createdAt

\* The file holds what the map holds: no file and no session, or a file
\* that is the snapshot of the map.
FileMatchesMap ==
    IF file.state = "absent" THEN sessionsCache = <<>> ELSE FileIsSnapshot

\* C13: as long as no write has failed, in every state between handler
\* steps the file holds exactly the sessions of the in-memory map, with
\* their message histories.
C13_FileFollowsMap ==
    used.fails = 0 => FileMatchesMap

C13_Witness ==
    /\ used.fails = 0
    /\ last.op = "finish"
    /\ last.save = "ok"
    /\ Cardinality(DOMAIN sessionsCache) = 2
    /\ FileIsSnapshot

\* C14: a step whose file write fails leaves the file as it was, makes the
\* mutation in memory all the same and answers as it does when the write
\* succeeds: create stores the new session and returns it, delete removes
\* the session and reports success, a chat request appends its user
\* message and starts the stream, the completion callback appends the
\* assistant message.
C14_WriteFailureNotPropagated ==
    [][last'.save = "failed" =>
         /\ file' = file
         /\ last'.op \in {"create", "delete", "chat", "finish"}
         /\ last'.op = "create" =>
              LET id == last'.resp.body.conversationId
                  metadata == IF last'.body.metadata = Nil THEN EmptyMeta
                              ELSE last'.body.metadata
              IN /\ last'.resp = Json([conversationId |-> id,
                                       metadata       |-> metadata,
                                       createdAt      |-> toISOString(now),
                                       messageCount   |-> 0])
                 /\ id \in DOMAIN sessionsCache'
                 /\ Stored(sessionsCache', heap', id).messages = <<>>
                 /\ Stored(sessionsCache', heap', id).metadata = metadata
         /\ last'.op = "delete" =>
              /\ last'.resp.kind = "json"
              /\ last'.resp.body.success = TRUE
              /\ last'.body.conversationId \in DOMAIN sessionsCache
              /\ last'.body.conversationId \notin DOMAIN sessionsCache'
         /\ last'.op = "chat" =>
              LET ref == sessionsCache[last'.body.dataConversationId]
                  newest == last'.body.messages[Len(last'.body.messages)]
              IN /\ last'.resp = StreamResponse
                 /\ heap'[ref].messages
                      = Append(heap[ref].messages, UserMsg(newest.content))
                 /\ Len(reqs') = Len(reqs) + 1
                 /\ reqs'[Len(reqs')].session = ref
         /\ last'.op = "finish" =>
              \E k \in DOMAIN reqs :
                 /\ reqs' = RemoveAt(reqs, k)
                 /\ reqs[k].session # 0
                 /\ reqs[k].session \in DOMAIN heap' =>
                      \E text \in ReplyTexts :
                         heap'[reqs[k].session].messages
                           = Append(heap[reqs[k].session].messages,
                                    AssistantMsg(text))
      ]_vars

C14_Witness ==
    /\ last.op = "finish"
    /\ last.save = "failed"
    /\ last.body.dataConversationId \in DOMAIN sessionsCache
    /\ Len(Stored(sessionsCache, heap, last.body.dataConversationId).messages) = 2
    /\ FileHistory(file, last.body.dataConversationId)
         # Stored(sessionsCache, heap, last.body.dataConversationId).messages

\* loadSessions throws on this file: it is not JSON, or one of its entries
\* is not an object.
LoadThrows(f) ==
    \/ f.state = "unparseable"
    \/ /\ f.state = "valid"
       /\ \E id \in DOMAIN f.data : f.data[id] = JsonNull

\* C15: when loading the file raises an error, the process starts with an
\* empty map.
C15_LoadFailsSoft ==
    (last.op = "start" /\ LoadThrows(file)) => sessionsCache = <<>>

\* A chat request without data.conversationId is handled in this step.
DirectChatStep ==
    /\ apiKey
    /\ last'.op = "chat"
    /\ last'.body.dataConversationId = Nil

\* The provider call of a chat without session ends in this step, by its
\* completion or by an error.
DirectChatEnds ==
    /\ last'.op \in {"finish", "error"}
    /\ \E k \in DOMAIN reqs : reqs[k].session = 0 /\ reqs' = RemoveAt(reqs, k)

\* C16: a chat request without data.conversationId, and the completion or
\* failure of its provider call, change neither the map, nor a session, nor
\* the file, and make no save; the request answers with the stream of a
\* provider call that is bound to no session.
C16_DirectChatTouchesNothing ==
    [][/\ DirectChatStep =>
            /\ last'.resp = StreamResponse
            /\ Len(reqs') = Len(reqs) + 1
            /\ reqs'[Len(reqs')].session = 0
            /\ last'.save = "none"
            /\ sessionsCache' = sessionsCache
            /\ heap' = heap
            /\ file' = file
       /\ DirectChatEnds =>
            /\ last'.save = "none"
            /\ sessionsCache' = sessionsCache
            /\ heap' = heap
            /\ file' = file
      ]_vars

C16_Witness ==
    /\ last.op = "finish"
    /\ last.body.dataConversationId = Nil
    /\ last.save = "none"
    /\ sessionsCache # <<>>
    /\ ~FileIsSnapshot

\* The provider call k, made for a session and whose caller has gone,
\* leaves the calls in flight in this step, the process staying up.
DisconnectedCallEnds(k) ==
    /\ reqs[k].session # 0
    /\ ~reqs[k].connected
    /\ reqs' = RemoveAt(reqs, k)
    /\ last'.op # "start"

\* C17: a caller's disconnect leaves its session chat call in flight and
\* changes nothing in the store; the call then ends only by the provider's
\* completion or error, and on completion the assistant reply is appended
\* to the session and saveSessions runs (the file holding the reply when
\* the session is still stored and the write succeeds), although nobody
\* receives the stream.
C17_DisconnectDoesNotCancel ==
    [][/\ last'.op = "disconnect" =>
            /\ Len(reqs') = Len(reqs)
            /\ \A k \in DOMAIN reqs : reqs'[k].session = reqs[k].session
            /\ sessionsCache' = sessionsCache
            /\ heap' = heap
            /\ file' = file
       /\ \A k \in DOMAIN reqs :
            DisconnectedCallEnds(k) =>
              LET ref == reqs[k].session
                  id == reqs[k].conversationId
              IN /\ last'.op \in {"finish", "error"}
                 /\ last'.op = "finish" =>
                      /\ last'.save \in {"ok", "failed"}
                      /\ ref \in DOMAIN heap' =>
                           \E text \in ReplyTexts :
                              heap'[ref].messages
                                = Append(heap[ref].messages, AssistantMsg(text))
                      /\ (/\ last'.save = "ok"
                          /\ id \in DOMAIN sessionsCache'
                          /\ sessionsCache'[id] = ref)
                           => FileHistory(file', id) = heap'[ref].messages
      ]_vars

C17_Witness ==
    /\ last.op = "finish"
    /\ last.resp = NoResponse
    /\ last.save = "ok"
    /\ last.body.dataConversationId \in DOMAIN sessionsCache
    /\ LET messages == Stored(sessionsCache, heap, last.body.dataConversationId).messages
       IN /\ Len(messages) = 2
          /\ messages[2].role = "assistant"
          /\ FileHistory(file, last.body.dataConversationId) = messages

\* A request is handled in this step.
RequestStep ==
    last'.op \in {"create", "get", "delete", "chat", "getMessages", "listSessions"}

\* C18: while the API key is absent, every request, whatever its action,
\* is answered with a 500 error, starts no provider call and changes
\* neither the map, nor a session, nor the file.
C18_MissingKeyFailsFirst ==
    [][(~apiKey /\ RequestStep) =>
          /\ last'.resp.kind = "error"
          /\ last'.resp.status = 500
          /\ last'.save = "none"
          /\ reqs' = reqs
          /\ sessionsCache' = sessionsCache
          /\ heap' = heap
          /\ file' = file
      ]_vars

C18_Witness ==
    /\ ~apiKey
    /\ last.op = "create"
    /\ last.resp.status = 500
    /\ sessionsCache # <<>>
    /\ file.state = "valid"

\* A create request is answered in this step.
CreateStep ==
    /\ last'.op = "create"
    /\ last'.resp.kind = "json"

\* C19: the id a create returns is not the id of a session already in the
\* store; the create leaves every stored session as it was and the number
\* of stored sessions grows by exactly one.
C19_CreateIdIsFresh ==
    [][CreateStep =>
          /\ last'.resp.body.conversationId \notin DOMAIN sessionsCache
          /\ \A id \in DOMAIN sessionsCache :
               /\ id \in DOMAIN sessionsCache'
               /\ Stored(sessionsCache', heap', id) = Stored(sessionsCache, heap, id)
          /\ Cardinality(DOMAIN sessionsCache')
               = Cardinality(DOMAIN sessionsCache) + 1
      ]_vars

\* C20: as long as an id stays in the store, the conversationId, metadata
\* and createdAt of its session do not change.
C20_IdentityFieldsFixed ==
    [][\A id \in DOMAIN sessionsCache \cap DOMAIN sessionsCache' :
          /\ Stored(sessionsCache', heap', id).conversationId
               = Stored(sessionsCache, heap, id).conversationId
          /\ Stored(sessionsCache', heap', id).metadata
               = Stored(sessionsCache, heap, id).metadata
          /\ Stored(sessionsCache', heap', id).createdAt
               = Stored(sessionsCache, heap, id).createdAt
      ]_vars

\* The file f is the exact snapshot of the map cache over the objects hp.
IsSnapshot(f, cache, hp) ==
    /\ f.state = "valid"
    /\ DOMAIN f.data = DOMAIN cache
    /\ \A id \in DOMAIN cache : f.data[id] = stringifySession(hp[cache[id]])

\* A write is missing from the file although no write has failed.
LostUpdate ==
    /\ used.fails = 0
    /\ file.state = "valid"
    /\ \E id \in DOMAIN sessionsCache :
         \/ id \notin DOMAIN file.data
         \/ file.data[id] # stringifySession(Stored(sessionsCache, heap, id))

\* C21 (as amended): within one process there is no lost update on the
\* file: every write that succeeds leaves the file the exact snapshot of the
\* whole map, so it carries the mutations made by every other request so
\* far, whichever request wrote last.
C21_LastWriterCarriesAll ==
    [][last'.save = "ok" => IsSnapshot(file', sessionsCache', heap')]_vars

\* C21 as claimed: requests on different sessions race so that a write goes
\* missing from the file although no write failed.
C21_LostUpdateHappens == <>LostUpdate

C21_Witness ==
    /\ last.op = "create"
    /\ last.save = "ok"
    /\ \E k \in DOMAIN reqs :
         /\ reqs[k].session # 0
         /\ reqs[k].conversationId # last.resp.body.conversationId
         /\ reqs[k].conversationId \in DOMAIN sessionsCache
         /\ sessionsCache[reqs[k].conversationId] = reqs[k].session
         /\ FileHistory(file, reqs[k].conversationId)
              = <<UserMsg(reqs[k].user)>>

\* The calls in flight on object ref among the calls rq.
CallsOn(rq, ref) == {k \in DOMAIN rq : rq[k].session = ref}

Roles(messages) == [i \in 1..Len(messages) |-> messages[i].role]

\* C22: a well-formed chat request on a stored session is accepted whether
\* or not other calls are in flight on that session: its user message is
\* appended at the end of the history as it stands and one more call is in
\* flight on the session; a completion appends its assistant message at the
\* end of the history as it stands and leaves the other calls in flight.
C22_SameSessionNotSerialized ==
    [][/\ \A id \in DOMAIN sessionsCache :
            (/\ apiKey
             /\ last'.op = "chat"
             /\ last'.body.dataConversationId = id
             /\ ~MalformedNewest(last'.body))
            => LET ref == sessionsCache[id]
                   newest == last'.body.messages[Len(last'.body.messages)]
               IN /\ last'.resp = StreamResponse
                  /\ heap'[ref].messages
                       = Append(heap[ref].messages, UserMsg(newest.content))
                  /\ Cardinality(CallsOn(reqs', ref))
                       = Cardinality(CallsOn(reqs, ref)) + 1
       /\ \A k \in DOMAIN reqs :
            (/\ last'.op = "finish"
             /\ reqs' = RemoveAt(reqs, k)
             /\ reqs[k].session \in DOMAIN heap')
            => /\ \E text \in ReplyTexts :
                    heap'[reqs[k].session].messages
                      = Append(heap[reqs[k].session].messages, AssistantMsg(text))
               /\ Cardinality(CallsOn(reqs', reqs[k].session))
                    = Cardinality(CallsOn(reqs, reqs[k].session)) - 1
      ]_vars

C22_Witness ==
    \E id \in DOMAIN sessionsCache :
        /\ Roles(Stored(sessionsCache, heap, id).messages)
             = <<"user", "user", "assistant", "assistant">>
        /\ Stored(sessionsCache, heap, id).messages[1].content
             # Stored(sessionsCache, heap, id).messages[2].content
        /\ ~audit[sessionsCache[id]].serial

IsPrefix(s, t) == Len(s) <= Len(t) /\ SubSeq(t, 1, Len(s)) = s

\* While the process runs, a session is the object the map holds; over a
\* restart, it is the session reloaded under the same id.
HistoryKept(keep) ==
    IF last'.op = "start"
    THEN keep =>
           \A id \in DOMAIN sessionsCache \cap DOMAIN sessionsCache' :
              IsPrefix(Stored(sessionsCache, heap, id).messages,
                       Stored(sessionsCache', heap', id).messages)
    ELSE \A r \in DOMAIN heap \cap DOMAIN heap' :
              IsPrefix(heap[r].messages, heap'[r].messages)

\* C23 (as amended): no operation edits, removes or reorders a message of a
\* session: every step of the running process leaves each session's message
\* sequence a prefix of its next one, and so does a restart as long as no
\* write has failed.
C23_AppendOnly == [][HistoryKept(used.fails = 0)]_vars

\* C23 as claimed: between any two states in which a session is in the
\* store, restarts included, its earlier message sequence is a prefix of
\* its later one.
C23_AppendOnlyAcrossRestarts == [][HistoryKept(TRUE)]_vars

C23_Witness ==
    /\ last.op = "start"
    /\ used.fails = 0
    /\ reqs = <<>>
    /\ \E id \in DOMAIN sessionsCache :
         Roles(Stored(sessionsCache, heap, id).messages) = <<"user", "user">>

\* The list l carries the roles and contents of the messages, in order.
Carries(l, messages) ==
    /\ Len(l) = Len(messages)
    /\ \A i \in 1..Len(messages) :
         /\ l[i].role = messages[i].role
         /\ l[i].content = messages[i].content

\* C24: when a session chat request is accepted, the list submitted to the
\* provider carries, in stored order, the history the session had followed
\* by the request's user message, which is the session's history at that
\* time; the user message is in the session, and saveSessions has run (the
\* file holding it when the write succeeded), in the state in which the
\* provider call starts.
C24_SubmitsFullHistory ==
    [][\A id \in Ids :
         AcceptStep(id) =>
           LET ref == sessionsCache[id]
               newest == last'.body.messages[Len(last'.body.messages)]
               history == Append(heap[ref].messages, UserMsg(newest.content))
           IN /\ Carries(last'.submitted, history)
              /\ heap'[ref].messages = history
              /\ last'.save \in {"ok", "failed"}
              /\ last'.save = "ok" => FileHistory(file', id) = history
              /\ reqs' = Append(reqs, reqs'[Len(reqs')])
              /\ reqs'[Len(reqs')].session = ref
      ]_vars

C24_Witness ==
    /\ last.op = "chat"
    /\ last.resp = StreamResponse
    /\ last.save = "ok"
    /\ Roles(last.submitted) = <<"user", "assistant", "user">>
    /\ last.submitted[3].content # last.submitted[1].content

\* What a request in flight was accepted with.
Accepted(rq) ==
    [session |-> rq.session, conversationId |-> rq.conversationId,
     user |-> rq.user, before |-> rq.before, saved |-> rq.saved]

\* The life of a session chat request, step by step: a call starts
\* streaming only in the step of a chat request that passed validation (the
\* session is stored, the newest message is a user message) and appended
\* and saved its user turn; while it streams, what it was accepted with
\* does not change; it stops streaming in one step, which is its completion
\* (assistant message appended, save made), its error, or the end of the
\* process.
RequestLifeCycle ==
    /\ Len(reqs') = Len(reqs) + 1 =>
         /\ \A k \in DOMAIN reqs : reqs'[k] = reqs[k]
         /\ reqs'[Len(reqs')].connected
         /\ reqs'[Len(reqs')].session # 0 =>
              LET id == last'.body.dataConversationId
                  rq == reqs'[Len(reqs')]
              IN /\ last'.op = "chat"
                 /\ last'.resp = StreamResponse
                 /\ id \in DOMAIN sessionsCache
                 /\ ~MalformedNewest(last'.body)
                 /\ rq.session = sessionsCache[id]
                 /\ rq.before = heap[rq.session].messages
                 /\ heap'[rq.session].messages = Append(rq.before, UserMsg(rq.user))
                 /\ last'.save \in {"ok", "failed"}
                 /\ rq.saved = (last'.save = "ok")
    /\ Len(reqs') = Len(reqs) =>
         \A k \in DOMAIN reqs : Accepted(reqs'[k]) = Accepted(reqs[k])
    /\ Len(reqs') < Len(reqs) =>
         \/ last'.op = "start" /\ reqs' = <<>>
         \/ /\ last'.op \in {"finish", "error"}
            /\ \E k \in DOMAIN reqs :
                 /\ reqs' = RemoveAt(reqs, k)
                 /\ (reqs[k].session # 0 /\ reqs[k].session \in DOMAIN heap') =>
                      IF last'.op = "finish"
                      THEN /\ Len(heap'[reqs[k].session].messages)
                                = Len(heap[reqs[k].session].messages) + 1
                           /\ last'.save \in {"ok", "failed"}
                      ELSE /\ heap'[reqs[k].session] = heap[reqs[k].session]
                           /\ last'.save = "none"
    /\ Len(reqs') <= Len(reqs) + 1

\* C25: every session chat request goes through validation, the save of
\* its user turn and streaming in that order, without skipping or
\* revisiting one, and ends once, completed or errored; when the provider
\* eventually finishes or errors, no request streams for ever.
C25_RequestStateMachine ==
    /\ [][RequestLifeCycle]_vars
    /\ <>[](reqs = <<>>)

C25_Witness ==
    /\ last.op = "error"
    /\ reqs = <<>>
    /\ last.body.dataConversationId \in DOMAIN sessionsCache
    /\ Roles(Stored(sessionsCache, heap, last.body.dataConversationId).messages)
         = <<"user", "assistant", "user">>

\* A chat request naming a session is rejected by the validation in this
\* step: the session is not stored, or the newest message is missing or is
\* not a user message.
RejectedChatStep ==
    /\ apiKey
    /\ last'.op = "chat"
    /\ last'.body.dataConversationId # Nil
    /\ \/ last'.body.dataConversationId \notin DOMAIN sessionsCache
       \/ MalformedNewest(last'.body)

\* C26: a session chat request rejected by the validation is answered with
\* an error and changes nothing: no session gets a message or a new
\* updatedAt, the map and the file stay as they are, no save is made and
\* no provider call starts.
C26_RejectedChatChangesNothing ==
    [][RejectedChatStep =>
          /\ last'.resp.kind = "error"
          /\ sessionsCache' = sessionsCache
          /\ heap' = heap
          /\ file' = file
          /\ last'.save = "none"
          /\ reqs' = reqs
          /\ last'.submitted = <<>>
      ]_vars

C26_Witness ==
    /\ last.op = "chat"
    /\ last.resp.kind = "error"
    /\ last.body.dataConversationId \in DOMAIN sessionsCache
    /\ last.body.hasMessages
    /\ last.body.messages # <<>>
    /\ Roles(Stored(sessionsCache, heap, last.body.dataConversationId).messages)
         = <<"user", "assistant">>

IsAssistant(m) == m.role = "assistant"
IsUser(m) == m.role = "user"

\* The assistant messages of a history, in order.
Assistants(messages) == SelectSeq(messages, IsAssistant)

\* The provider call on object r that completes in this step, if any.
CompletesOn(r) ==
    /\ last'.op = "finish"
    /\ \E k \in DOMAIN reqs : reqs[k].session = r /\ reqs' = RemoveAt(reqs, k)

\* C27: while the process runs, a session gets an assistant message only
\* in the step in which a provider call on it completes: that step ends
\* exactly one call and appends exactly one assistant message, whose
\* content is the provider's full reply; every other step (a request, a
\* disconnect, a provider error) leaves the assistant messages of every
\* session as they are, so a request that is still streaming, or has
\* failed, has none in the session, and none has two.
C27_AssistantOnlyOnFinish ==
    [][last'.op # "start" =>
         /\ \A r \in DOMAIN heap \cap DOMAIN heap' :
              IF CompletesOn(r)
              THEN \E text \in ReplyTexts :
                      /\ heap'[r].messages
                           = Append(heap[r].messages, AssistantMsg(text))
                      /\ Assistants(heap'[r].messages)
                           = Append(Assistants(heap[r].messages), AssistantMsg(text))
              ELSE Assistants(heap'[r].messages) = Assistants(heap[r].messages)
         /\ last'.op = "finish" => Len(reqs') = Len(reqs) - 1
         /\ \A r \in DOMAIN heap' \ DOMAIN heap : heap'[r].messages = <<>>
      ]_vars

C27_Witness ==
    \E k \in DOMAIN reqs :
        /\ reqs[k].session # 0
        /\ Roles(reqs[k].before) = <<"user", "assistant">>
        /\ heap[reqs[k].session].messages
             = Append(reqs[k].before, UserMsg(reqs[k].user))
        /\ ~reqs[k].connected

\* The call k, made on a session that has since been deleted, completes in
\* this step.
CompletesAfterDelete(k) ==
    /\ last'.op = "finish"
    /\ reqs' = RemoveAt(reqs, k)
    /\ reqs[k].session # 0
    /\ reqs[k].conversationId \notin DOMAIN sessionsCache

Users(messages) == SelectSeq(messages, IsUser)

\* A chat request on the session object r is accepted in this step.
AcceptsOn(r) ==
    /\ last'.op = "chat"
    /\ last'.resp.kind = "stream"
    /\ Len(reqs') = Len(reqs) + 1
    /\ reqs'[Len(reqs')].session = r

Count(happens) == IF happens THEN 1 ELSE 0

\* C29: a session's history never holds more assistant messages than user
\* messages, and its length is the number of chat requests accepted on it
\* plus the number of completion callbacks fired for it: the history is
\* empty when the session is created, and every step of the running process
\* lengthens it by exactly the requests accepted on it and the callbacks
\* fired for it in that step.
C29_HistoryCounts ==
    /\ [](\A r \in DOMAIN heap :
            Len(Assistants(heap[r].messages)) <= Len(Users(heap[r].messages)))
    /\ [][last'.op # "start" =>
            /\ \A r \in DOMAIN heap' \ DOMAIN heap : heap'[r].messages = <<>>
            /\ \A r \in DOMAIN heap \cap DOMAIN heap' :
                 Len(heap'[r].messages)
                   = Len(heap[r].messages) + Count(AcceptsOn(r))
                                           + Count(CompletesOn(r))
         ]_vars

\* Two chat requests were accepted on a session created in this process and
\* one completion callback has fired for it, the other call still running.
C29_Witness ==
    \E id \in DOMAIN sessionsCache :
        LET ref == sessionsCache[id] IN
        /\ audit[ref].serial = FALSE
        /\ Roles(heap[ref].messages) = <<"user", "user", "assistant">>
        /\ Cardinality(CallsOn(reqs, ref)) = 1
        /\ last.op = "finish"

\* The last step accepted a chat request on a stored session.
SessionChatAccepted ==
    /\ last.op = "chat"
    /\ last.resp.kind = "stream"
    /\ last.body.dataConversationId # Nil

\* C30: of the message list sent with a session chat request only the last
\* element is stored, with role "user": every stored message has role user
\* or assistant, the first message of a non-empty history is a user message,
\* no system message is in the list submitted to the provider for a session
\* chat, and an accepted request appends exactly one user message carrying
\* the content of the last element of the list it sent.
C30_OnlyNewestStoredAsUser ==
    /\ [](/\ \A r \in DOMAIN heap :
               /\ \A i \in 1..Len(heap[r].messages) :
                    heap[r].messages[i].role \in {"user", "assistant"}
               /\ heap[r].messages # <<>> => heap[r].messages[1].role = "user"
          /\ SessionChatAccepted =>
               \A i \in 1..Len(last.submitted) :
                    last.submitted[i].role \in {"user", "assistant"})
    /\ [][\A r \in DOMAIN heap \cap DOMAIN heap' :
            AcceptsOn(r) =>
              LET sent == last'.body.messages IN
              heap'[r].messages
                = Append(heap[r].messages, UserMsg(sent[Len(sent)].content))
         ]_vars

\* A chat request whose list starts with the system prompt was accepted on a
\* session that already holds a completed round.
C30_Witness ==
    /\ SessionChatAccepted
    /\ last.body.messages[1] = SystemPrompt
    /\ Len(last.body.messages) = 2
    /\ last.body.dataConversationId \in DOMAIN sessionsCache
    /\ Roles(heap[sessionsCache[last.body.dataConversationId]].messages)
         = <<"user", "assistant", "user">>
    /\ Len(last.submitted) = 3

\* What a restart would load from the file f is the map cache over hp.
LoadsBack(f, cache, hp) ==
    /\ DOMAIN loadedCache(f) = DOMAIN cache
    /\ \A id \in DOMAIN cache :
         Stored(loadedCache(f), loadedHeap(f), id) = Stored(cache, hp, id)

\* C31: whenever a save succeeds, the file is the snapshot of the whole map
\* as it is then, whatever saves failed before, and a restart from that file
\* loads every session of that map unchanged; the file stays as it is until
\* the next successful save.
C31_SaveRecoversFromFailures ==
    [][IF last'.save = "ok"
       THEN /\ IsSnapshot(file', sessionsCache', heap')
            /\ LoadsBack(file', sessionsCache', heap')
       ELSE file' = file
      ]_vars

\* One session, one chat round on it and one failed write: the save of the
\* create or of the chat request failed, and the completion's save succeeded.
C31_Witness ==
    /\ last.op = "finish"
    /\ last.save = "ok"
    /\ used = [creates |-> 1, calls |-> 1, fails |-> 1]
    /\ \E id \in DOMAIN sessionsCache :
         /\ Roles(Stored(sessionsCache, heap, id).messages) = <<"user", "assistant">>
         /\ InFile(id)
         /\ newDate(file.data[id].createdAt) = Stored(sessionsCache, heap, id).createdAt

\* No load started by the route watcher is still waiting for an answer.
LoadsSettled ==
    Waiting("watch.getSessionInfo") \cup Waiting("watch.loadSessionMessages") = {}

\* C32: when the loads started by the route watcher have all settled and
\* the route names a session, the active session is the one the route
\* names, and a message submitted then is sent with that id.
C32_ActiveSessionFollowsRoute ==
    (client.route \in Ids /\ LoadsSettled) =>
        /\ client.activeSession = client.route
        /\ client.event.op = "submitMessage" => client.event.id = client.route

ChatInFlightFor(id) ==
    /\ client.isLoading
    /\ client.activeSession = id
    /\ Call("chat", id) \in client.pending

====
